---- MODULE Spec2Model ----
(***************************************************************************)
(* FileManager: a console menu loop (FileManagerUI) over a filesystem      *)
(* facade (BaseFileManager) that maps std::filesystem calls to HTTP-like   *)
(* status codes.                                                           *)
(*                                                                         *)
(* Strings are sequences of one-character strings, so that getline,        *)
(* operator>>, ignore, stoi, path::filename and string::find are computed  *)
(* character by character as the library does.                             *)
(*                                                                         *)
(* The filesystem is a tree of regular files and directories below the     *)
(* working directory, all of them accessible to the process (no symbolic   *)
(* links, no permission errors): a function from the paths that exist to   *)
(* "file" or "dir".  File contents are not modelled.                       *)
(***************************************************************************)
EXTENDS Integers, Sequences, FiniteSets, TLC

VARIABLES
    fs,         \* the filesystem: existing path -> "file" | "dir"
    pre,        \* the filesystem before the last step
    last,       \* the facade call made by the last step (NoCall if none)
    trip,       \* observer of createFile/list/deleteFile/list sequences
    vocab,      \* the paths the facade's client names in this run
    pc,         \* the blocking read the console loop is waiting in
    prev,       \* pc before the last step
    stdin,      \* characters typed but not yet read from cin
    failed,     \* cin has eofbit/failbit set
    command,    \* FileManagerUI::start()'s local `command`
    path,       \* the handlers' first string local (path / oldPath)
    confirm,    \* the handlers' local `char confirm`
    extracted,  \* the last `cin >> confirm` extracted a character
    out         \* the message printed by the last step

vars == <<fs, pre, last, trip, vocab, pc, prev, stdin, failed, command, path,
          confirm, extracted, out>>

uiVars == <<pc, prev, stdin, failed, command, path, confirm, extracted, out>>

-----------------------------------------------------------------------------
(* Bounds *)

\* Deepest nesting of an entry of the tree, and of a path a client names.
MaxDepth == 3

-----------------------------------------------------------------------------
(* Paths *)

NL == "\n"

SEP == "/"

\* The candidate paths, relative to the working directory.
AllPaths ==
    << <<"d">>,
       <<"d", SEP, "a">>,
       <<"d", SEP, "a", SEP, "a">>,
       <<"d", SEP, "A", "b">>,
       <<"d", SEP, "A", "b", SEP, "a">>,
       <<"d", SEP, "A", "b", SEP, "a", SEP, "a">> >>

\* The file names of the candidate paths, in the order taken as ascending.
Names == << <<"a">>, <<"A", "b">>, <<"d">> >>

\* Number of components of a path.
Depth(p) == IF p = << >> THEN 0 ELSE Len(SelectSeq(p, LAMBDA c : c = SEP)) + 1

\* Candidate paths with a second name in the working directory.
TopPaths ==
    << <<"d">>,
       <<"A", "b">>,
       <<"d", SEP, "a">>,
       <<"d", SEP, "a", SEP, "a">>,
       <<"d", SEP, "a", SEP, "a", SEP, "a">> >>

\* The candidates no deeper than MaxDepth.
WithinDepth(ps) == {ps[i] : i \in {j \in 1..Len(ps) : Depth(ps[j]) <= MaxDepth}}

\* The paths a client names.
Universe == WithinDepth(AllPaths)

\* The empty path: not a name of anything (fs::exists("") is false).
EmptyPath == << >>

PathInputs == Universe \cup {EmptyPath}

TopInputs == WithinDepth(TopPaths) \cup {EmptyPath}

\* A client works with one of the two sets of paths; every operation may be
\* called with every path of the set, rename with every pair.
Vocabularies == {PathInputs, TopInputs}

Patterns ==
    { << >>, <<"a">>, <<"b">>, <<"A", "b">>, <<"s">> }

\* Position of the last separator of p, 0 if there is none.
LastSep(p) ==
    LET S == {i \in 1..Len(p) : p[i] = SEP}
    IN  IF S = {} THEN 0 ELSE CHOOSE i \in S : \A j \in S : j <= i

\* path::parent_path(): the empty path for a bare name.
Parent(p) ==
    IF LastSep(p) = 0 THEN EmptyPath ELSE SubSeq(p, 1, LastSep(p) - 1)

\* path::filename(): the last component.
Filename(p) == SubSeq(p, LastSep(p) + 1, Len(p))

\* p lies strictly below directory d.
IsUnder(p, d) ==
    /\ Len(p) > Len(d) + 1
    /\ SubSeq(p, 1, Len(d)) = d
    /\ p[Len(d) + 1] = SEP

\* The path that p (old itself or an entry below it) has once old is new.
Rebase(p, old, new) == new \o SubSeq(p, Len(old) + 1, Len(p))

\* d/n, or n in the working directory.
Child(d, n) == IF d = EmptyPath THEN n ELSE d \o <<SEP>> \o n

KindOf(f, p) == IF p \in DOMAIN f THEN f[p] ELSE "none"

EmptyFs == [p \in {} |-> "file"]

\* f with an entry of kind k at p.
Put(f, p, k) == [q \in DOMAIN f \cup {p} |-> IF q = p THEN k ELSE f[q]]

\* MaxDepth caps the growth of the tree: renames that nest a directory with
\* entries ever deeper would let it grow without end.  Every call made on a
\* tree within the bound is taken, with the result the facade gives; a tree
\* that a rename has carried beyond the bound is not followed further.
WithinBound(f) == \A p \in DOMAIN f : Depth(p) <= MaxDepth

\* Every existing entry lies in an existing directory.
FsWellFormed(f) ==
    \A p \in DOMAIN f :
        /\ f[p] \in {"file", "dir"}
        /\ Parent(p) # EmptyPath => KindOf(f, Parent(p)) = "dir"

-----------------------------------------------------------------------------
(* std::filesystem and std::ofstream, as BaseFileManager uses them *)

Exists(f, p) == KindOf(f, p) # "none"

IsDirectory(f, p) == KindOf(f, p) = "dir"

IsRegularFile(f, p) == KindOf(f, p) = "file"

\* The directory that would hold p exists (the working directory for a
\* bare name).
ParentIsDir(f, p) ==
    /\ p # EmptyPath
    /\ Parent(p) = EmptyPath \/ IsDirectory(f, Parent(p))

Reverse(s) == [i \in 1..Len(s) |-> s[Len(s) + 1 - i]]

\* The entries of directory d, in one of the orders the OS may give.  The
\* order is unspecified and each directory has its own: rev is the set of
\* directories enumerated in reverse.  No directory of the modelled tree
\* holds more than two entries, so these are all the orders there are.
DirectoryIterator(f, d, rev) ==
    LET present == SelectSeq(Names, LAMBDA n : Child(d, n) \in DOMAIN f)
        asc == [i \in 1..Len(present) |-> Child(d, present[i])]
    IN  IF d \in rev THEN Reverse(asc) ELSE asc

\* The directories among ds whose entries can come in more than one order.
Reorderable(f, ds) == {d \in ds : Len(DirectoryIterator(f, d, {})) > 1}

\* The orders fs::directory_iterator(p) may take.
ListOrders(f, p) == SUBSET Reorderable(f, {p})

\* The orders a recursive walk below p may take: one for each directory it
\* enters.
WalkOrders(f, p) ==
    SUBSET Reorderable(f, {p} \cup {d \in DOMAIN f : IsUnder(d, p)})

RECURSIVE WalkEntries(_, _, _)
\* Pre-order walk of the entries es and of everything below them.
WalkEntries(f, es, rev) ==
    IF es = << >> THEN << >>
    ELSE LET e == Head(es)
         IN  <<e>>
             \o (IF f[e] = "dir"
                 THEN WalkEntries(f, DirectoryIterator(f, e, rev), rev)
                 ELSE << >>)
             \o WalkEntries(f, Tail(es), rev)

\* One level only, as fs::directory_iterator would give.
FlatDirectoryIterator(f, d, rev) == DirectoryIterator(f, d, rev)

\* fs::recursive_directory_iterator(path, skip_permission_denied).
RecursiveDirectoryIterator(f, d, rev) ==
    WalkEntries(f, DirectoryIterator(f, d, rev), rev)

\* Never matches the empty pattern.
FindNonEmpty(name, pattern) ==
    /\ pattern # << >>
    /\ \E i \in 1..(Len(name) - Len(pattern) + 1) :
           SubSeq(name, i, i + Len(pattern) - 1) = pattern

\* name.find(pattern) != string::npos
Find(name, pattern) ==
    \E i \in 1..(Len(name) - Len(pattern) + 1) :
        SubSeq(name, i, i + Len(pattern) - 1) = pattern

\* fs::remove(p) of a regular file or an empty directory.
Remove(f, p) == [q \in DOMAIN f \ {p} |-> f[q]]

\* fs::remove_all(d): d and everything below it.
RemoveAll(f, d) ==
    [p \in {q \in DOMAIN f : ~(q = d \/ IsUnder(q, d))} |-> f[p]]

\* The entries a rename of old moves: old and what lies below it.
Moved(f, old) == {p \in DOMAIN f : p = old \/ IsUnder(p, old)}

\* fs::rename(old, new) would succeed (POSIX rename).
RenameAllowed(f, old, new) ==
    \/ new = old
    \/ /\ ParentIsDir(f, new)
       /\ ~IsUnder(new, old)
       /\ \/ KindOf(f, old) = "file" /\ KindOf(f, new) # "dir"
          \/ /\ KindOf(f, old) = "dir"
             /\ KindOf(f, new) # "file"
             /\ DirectoryIterator(f, new, {}) = << >>

\* Leaves the entry at old as well: a copy instead of a move.
RenameApplyCopy(f, old, new) ==
    IF new = old THEN f
    ELSE LET arrived == {Rebase(q, old, new) : q \in Moved(f, old)}
             kept == {p \in DOMAIN f : ~(p = new \/ IsUnder(p, new))}
         IN  [p \in kept \cup arrived |->
                 IF p \in arrived THEN f[Rebase(p, new, old)] ELSE f[p]]

\* The filesystem after a successful fs::rename(old, new): old and what
\* lies below it are at new, in place of what new was.
RenameApply(f, old, new) ==
    IF new = old THEN f
    ELSE LET arrived == {Rebase(q, old, new) : q \in Moved(f, old)}
             kept == {p \in DOMAIN f : /\ ~(p = new \/ IsUnder(p, new))
                                       /\ ~(p = old \/ IsUnder(p, old))}
         IN  [p \in kept \cup arrived |->
                 IF p \in arrived THEN f[Rebase(p, new, old)] ELSE f[p]]

-----------------------------------------------------------------------------
(* BaseFileManager: every operation returns a status code *)

Success == 200

NoMatches == 204

InvalidRequest == 400

NotFound == 404

InternalError == 500

\* What a facade call leaves: its status, the filesystem, the output vector.
Result(status, f, results) == [status |-> status, fs |-> f, results |-> results]

\* BaseFileManager::listDirectoryContents(path, contents)
ListDirectoryContents(f, p, contents, rev) ==
    IF ~Exists(f, p) THEN Result(NotFound, f, contents)
    ELSE IF ~IsDirectory(f, p) THEN Result(InvalidRequest, f, contents)
    ELSE Result(Success, f, contents \o DirectoryIterator(f, p, rev))

\* Without the `if (!file)` test: a failed open is reported as success.
CreateFileUnchecked(f, p) ==
    IF ParentIsDir(f, p) /\ KindOf(f, p) # "dir"
    THEN Result(Success, Put(f, p, "file"), << >>)
    ELSE Result(Success, f, << >>)

\* BaseFileManager::createFile(path): std::ofstream opens (and truncates)
\* the file; the open fails on a directory or under a missing directory.
CreateFile(f, p) ==
    IF ParentIsDir(f, p) /\ KindOf(f, p) # "dir"
    THEN Result(Success, Put(f, p, "file"), << >>)
    ELSE Result(InternalError, f, << >>)

\* Removes whatever the path names, without the regular-file check.
DeleteFileUnchecked(f, p) ==
    IF ~Exists(f, p) THEN Result(NotFound, f, << >>)
    ELSE Result(Success, RemoveAll(f, p), << >>)

\* BaseFileManager::deleteFile(path)
DeleteFile(f, p) ==
    IF ~Exists(f, p) THEN Result(NotFound, f, << >>)
    ELSE IF ~IsRegularFile(f, p) THEN Result(InvalidRequest, f, << >>)
    ELSE Result(Success, Remove(f, p), << >>)

\* Treats an existing directory as created.
CreateDirectoryIdempotent(f, p) ==
    IF IsDirectory(f, p) THEN Result(Success, f, << >>)
    ELSE IF Exists(f, p) THEN Result(InvalidRequest, f, << >>)
    ELSE IF ParentIsDir(f, p)
    THEN Result(Success, Put(f, p, "dir"), << >>)
    ELSE Result(InternalError, f, << >>)

\* BaseFileManager::createDirectory(path): fs::create_directory throws when
\* the parent is missing.
CreateDirectory(f, p) ==
    IF Exists(f, p) THEN Result(InvalidRequest, f, << >>)
    ELSE IF ParentIsDir(f, p)
    THEN Result(Success, Put(f, p, "dir"), << >>)
    ELSE Result(InternalError, f, << >>)

\* Removes the directory itself only, as fs::remove would: a directory with
\* entries in it makes the call fail.
DeleteDirectoryEmptyOnly(f, p) ==
    IF ~Exists(f, p) THEN Result(NotFound, f, << >>)
    ELSE IF ~IsDirectory(f, p) THEN Result(InvalidRequest, f, << >>)
    ELSE IF DirectoryIterator(f, p, {}) # << >>
    THEN Result(InternalError, f, << >>)
    ELSE Result(Success, Remove(f, p), << >>)

\* BaseFileManager::deleteDirectory(path)
DeleteDirectory(f, p) ==
    IF ~Exists(f, p) THEN Result(NotFound, f, << >>)
    ELSE IF ~IsDirectory(f, p) THEN Result(InvalidRequest, f, << >>)
    ELSE Result(Success, RemoveAll(f, p), << >>)

\* Without the existence check: the failed fs::rename is reported as 500.
RenameUnchecked(f, old, new) ==
    IF Exists(f, old) /\ RenameAllowed(f, old, new)
    THEN Result(Success, RenameApply(f, old, new), << >>)
    ELSE Result(InternalError, f, << >>)

\* BaseFileManager::rename(oldPath, newPath)
Rename(f, old, new) ==
    IF ~Exists(f, old) THEN Result(NotFound, f, << >>)
    ELSE IF RenameAllowed(f, old, new)
    THEN Result(Success, RenameApply(f, old, new), << >>)
    ELSE Result(InternalError, f, << >>)

\* BaseFileManager::searchFiles(path, pattern, results)
SearchFiles(f, p, pattern, results, rev) ==
    IF ~Exists(f, p) THEN Result(NotFound, f, results)
    ELSE IF ~IsDirectory(f, p) THEN Result(InvalidRequest, f, results)
    ELSE LET found == SelectSeq(RecursiveDirectoryIterator(f, p, rev),
                          LAMBDA e : Find(Filename(e), pattern))
             all == results \o found
         IN  Result(IF all = << >> THEN NoMatches ELSE Success, f, all)

-----------------------------------------------------------------------------
(* The record of the last facade call, and an observer of round trips *)

NoCall ==
    [op |-> "none", path |-> << >>, arg |-> << >>, status |-> 0, results |-> << >>]

CallRecord(op, p, a, r) ==
    [op |-> op, path |-> p, arg |-> a, status |-> r.status, results |-> r.results]

Range(s) == {s[i] : i \in 1..Len(s)}

TripIdle ==
    [stage |-> 0, p |-> << >>, createSt |-> 0, listSt |-> 0, listed |-> {},
     deleteSt |-> 0, list2St |-> 0, listed2 |-> {}]

\* Follows createFile(P); list(parent(P)); deleteFile(P); list(parent(P)).
TripNext(t, op, p, r) ==
    IF op = "createFile"
    THEN [TripIdle EXCEPT !.stage = 1, !.p = p, !.createSt = r.status]
    ELSE IF op = "list" /\ t.stage = 1 /\ p = Parent(t.p)
    THEN [t EXCEPT !.stage = 2, !.listSt = r.status, !.listed = Range(r.results)]
    ELSE IF op = "deleteFile" /\ t.stage = 2 /\ p = t.p
    THEN [t EXCEPT !.stage = 3, !.deleteSt = r.status]
    ELSE IF op = "list" /\ t.stage = 3 /\ p = Parent(t.p)
    THEN [t EXCEPT !.stage = 4, !.list2St = r.status, !.listed2 = Range(r.results)]
    ELSE TripIdle

\* A client calls the facade: op(p, a) gave r.
Call(op, p, a, r) ==
    /\ WithinBound(fs)
    /\ fs' = r.fs
    /\ pre' = fs
    /\ last' = CallRecord(op, p, a, r)
    /\ trip' = TripNext(trip, op, p, r)
    /\ UNCHANGED uiVars
    /\ UNCHANGED vocab

-----------------------------------------------------------------------------
(* std::cin and std::stoi, as FileManagerUI uses them *)

IsSpace(c) == c \in {" ", NL}

Digits == <<"0", "1", "2", "3", "4", "5", "6", "7", "8", "9">>

IsDigit(c) == \E i \in 1..Len(Digits) : Digits[i] = c

DigitValue(c) == (CHOOSE i \in 1..Len(Digits) : Digits[i] = c) - 1

RECURSIVE DecimalValue(_)
DecimalValue(ds) ==
    IF ds = << >> THEN 0
    ELSE DecimalValue(SubSeq(ds, 1, Len(ds) - 1)) * 10 + DigitValue(ds[Len(ds)])

\* Least element of a set of positions of s; Len(s)+1 for the empty set.
FirstOf(S, s) ==
    IF S = {} THEN Len(s) + 1 ELSE CHOOSE i \in S : \A j \in S : i <= j

\* First position of s that holds no whitespace.
FirstNonSpace(s) == FirstOf({i \in 1..Len(s) : ~IsSpace(s[i])}, s)

\* First position of s at or after `from` that holds no digit.
FirstNonDigit(s, from) == FirstOf({i \in from..Len(s) : ~IsDigit(s[i])}, s)

\* Position of the first line end of s.
FirstNL(s) == FirstOf({i \in 1..Len(s) : s[i] = NL}, s)

\* std::stoi(s): skips leading whitespace, takes an optional sign and the
\* longest run of digits; throws (ok = FALSE) when there is no digit or the
\* value does not fit an int.
Stoi(s) ==
    LET i == FirstNonSpace(s)
        signed == i <= Len(s) /\ s[i] \in {"+", "-"}
        j == IF signed THEN i + 1 ELSE i
        k == FirstNonDigit(s, j)
        v == DecimalValue(SubSeq(s, j, k - 1))
    IN  IF k = j \/ v > 2147483647
        THEN [ok |-> FALSE, value |-> 0]
        ELSE [ok |-> TRUE, value |-> IF signed /\ s[i] = "-" THEN 0 - v ELSE v]

\* No input: the end of the input stream.
EOF == << >>

\* std::getline(cin, str).  `inp` is what the terminal delivers if the read
\* has to wait: a whole line ending in NL, or EOF.  With the stream already
\* failed the sentry fails and str is left as it was.
GetLine(str, buf, fail, inp) ==
    IF fail THEN [str |-> str, stdin |-> buf, failed |-> TRUE]
    ELSE LET data == IF buf # << >> THEN buf ELSE inp
             n == FirstNL(data)
         IN  IF data = EOF
             THEN [str |-> << >>, stdin |-> << >>, failed |-> TRUE]
             ELSE [str |-> SubSeq(data, 1, n - 1),
                   stdin |-> SubSeq(data, n + 1, Len(data)),
                   failed |-> FALSE]

\* cin >> c for a char: skips whitespace, then takes one character.  On
\* failure c keeps the value it had.  `blocked`: the delivered line was
\* blank and the read waits on.
Extract(c, buf, fail, inp) ==
    IF fail
    THEN [c |-> c, got |-> FALSE, stdin |-> buf, failed |-> TRUE, blocked |-> FALSE]
    ELSE LET rest == SubSeq(buf, FirstNonSpace(buf), Len(buf))
             data == IF rest # << >> THEN rest
                     ELSE SubSeq(inp, FirstNonSpace(inp), Len(inp))
         IN  IF rest = << >> /\ inp = EOF
             THEN [c |-> c, got |-> FALSE, stdin |-> << >>, failed |-> TRUE,
                   blocked |-> FALSE]
             ELSE IF data = << >>
             THEN [c |-> c, got |-> FALSE, stdin |-> << >>, failed |-> FALSE,
                   blocked |-> TRUE]
             ELSE [c |-> Head(data), got |-> TRUE, stdin |-> Tail(data),
                   failed |-> FALSE, blocked |-> FALSE]

\* cin.ignore(): discards one character; nothing on a failed stream.
Ignore(buf, fail) == IF fail \/ buf = << >> THEN buf ELSE Tail(buf)

-----------------------------------------------------------------------------
(* What the user may type *)

WithNL(lines) == {l \o <<NL>> : l \in lines}

CommandLines ==
    { <<"1">>, <<"2">>, <<"3">>, <<"4">>, <<"5">>, <<"6">>, <<"7">>, <<"8">>,
      <<"9">>, <<"0">>, <<"a">>, << >>, <<"0", "9">>, <<" ", "9">>,
      <<"2", "a">> }

ConfirmLines ==
    { <<"y">>, <<"Y">>, <<"n">>, <<"N">>, << >>, <<" ", "y">>,
      <<"y", "e", "s">>, <<"n", "o">> }

UiPaths == { <<"d">>, <<"d", SEP, "a">>, EmptyPath }

UiPatterns == { << >>, <<"a">> }

\* The values an uninitialised `char confirm` may turn out to hold.
IndeterminateChars == {"y", "n"}

CommandInputs == WithNL(CommandLines) \cup {EOF}

ConfirmInputs == WithNL(ConfirmLines) \cup {EOF}

PathLineInputs == WithNL(UiPaths) \cup {EOF}

PatternInputs == WithNL(UiPatterns) \cup {EOF}

-----------------------------------------------------------------------------
(* FileManagerUI *)

\* Anything but a lower-case n confirms.
IsNotNo(c) == c # "n"

\* confirm == 'y' || confirm == 'Y'
IsYes(c) == c = "y" \/ c = "Y"

\* A switch whose 404 case falls through to the 500 case.
HandleStatusFallThrough(statusCode) ==
    CASE statusCode = 200 -> "OperationSuccessful"
      [] statusCode = 204 -> "NoFilesFound"
      [] statusCode = 400 -> "InvalidPathOrExists"
      [] statusCode = 404 -> "SystemError"
      [] statusCode = 500 -> "SystemError"
      [] OTHER -> "UnknownStatus"

\* FileManagerUI::handleStatus(statusCode): the message printed.
HandleStatus(statusCode) ==
    CASE statusCode = 200 -> "OperationSuccessful"
      [] statusCode = 204 -> "NoFilesFound"
      [] statusCode = 400 -> "InvalidPathOrExists"
      [] statusCode = 404 -> "NotFound"
      [] statusCode = 500 -> "SystemError"
      [] OTHER -> "UnknownStatus"

\* FileManagerUI::processCommand(command): where the loop reads next and
\* what was printed.  stoi's exception is caught nowhere: the process ends
\* in std::terminate.
ProcessCommand(cmd) ==
    LET n == Stoi(cmd)
    IN  IF ~n.ok THEN [pc |-> "Crashed", out |-> "None"]
        ELSE CASE n.value = 1 -> [pc |-> "CreateFilePath", out |-> "None"]
               [] n.value = 2 -> [pc |-> "DeleteFilePath", out |-> "None"]
               [] n.value = 3 -> [pc |-> "CreateDirectoryPath", out |-> "None"]
               [] n.value = 4 -> [pc |-> "DeleteDirectoryPath", out |-> "None"]
               [] n.value = 5 -> [pc |-> "ListPath", out |-> "None"]
               [] n.value = 6 -> [pc |-> "RenameOldPath", out |-> "None"]
               [] n.value = 7 -> [pc |-> "SearchPath", out |-> "None"]
               [] n.value = 8 -> [pc |-> "ClearConfirm", out |-> "None"]
               [] n.value = 9 -> [pc |-> "Command", out |-> "None"]
               [] OTHER -> [pc |-> "Command", out |-> "UnknownCommand"]

\* cin is left with buffer buf and fail state fail.
Cin(buf, fail) == stdin' = buf /\ failed' = fail

\* The step calls the facade, prints the status message and returns to
\* the menu.
UiCall(op, p, a, r) ==
    /\ fs' = r.fs
    /\ pre' = fs
    /\ last' = CallRecord(op, p, a, r)
    /\ out' = HandleStatus(r.status)
    /\ pc' = "Command"
    /\ prev' = pc
    /\ UNCHANGED <<trip, vocab>>

\* The step calls nothing, prints msg and goes on to read at `next`.
UiGoto(next, msg) ==
    /\ fs' = fs
    /\ pre' = fs
    /\ last' = NoCall
    /\ out' = msg
    /\ pc' = next
    /\ prev' = pc
    /\ UNCHANGED <<trip, vocab>>

\* FileManagerUI::start(): the menu, getline(cin, command), the "9" test,
\* processCommand.
Start ==
    /\ pc = "Command"
    /\ \E inp \in CommandInputs :
        LET r == GetLine(command, stdin, failed, inp)
            next == ProcessCommand(r.str)
        IN  /\ command' = r.str
            /\ Cin(r.stdin, r.failed)
            /\ IF r.str = <<"9">>
               THEN UiGoto("ExitConfirm", "None")
               ELSE UiGoto(next.pc, next.out)
            /\ UNCHANGED <<path, confirm, extracted>>

\* What a confirmation prompt leaves, r being what cin >> confirm gave;
\* cin.ignore() follows the extraction.  A blank line leaves the read
\* waiting.
ReadConfirm(r) ==
    /\ Cin(IF r.blocked THEN r.stdin ELSE Ignore(r.stdin, r.failed), r.failed)
    /\ confirm' = IF r.blocked THEN confirm ELSE r.c
    /\ extracted' = IF r.blocked THEN extracted ELSE r.got

\* start(): the exit confirmation.
ExitConfirm ==
    /\ pc = "ExitConfirm"
    /\ \E inp \in ConfirmInputs, garbage \in IndeterminateChars :
        LET r == Extract(garbage, stdin, failed, inp)
        IN  /\ ReadConfirm(r)
            /\ IF r.blocked THEN UiGoto("ExitConfirm", "None")
               ELSE IF IsYes(r.c) THEN UiGoto("Terminated", "Goodbye")
               ELSE UiGoto("Command", "None")
            /\ UNCHANGED <<command, path>>

\* FileManagerUI::createFile()
UiCreateFile ==
    /\ pc = "CreateFilePath"
    /\ \E inp \in PathLineInputs :
        LET r == GetLine(<< >>, stdin, failed, inp)
        IN  /\ Cin(r.stdin, r.failed)
            /\ path' = r.str
            /\ UiCall("createFile", r.str, << >>, CreateFile(fs, r.str))
            /\ UNCHANGED <<command, confirm, extracted>>

\* FileManagerUI::deleteFile(): the path.
UiDeleteFilePath ==
    /\ pc = "DeleteFilePath"
    /\ \E inp \in PathLineInputs :
        LET r == GetLine(<< >>, stdin, failed, inp)
        IN  /\ Cin(r.stdin, r.failed)
            /\ path' = r.str
            /\ UiGoto("DeleteFileConfirm", "None")
            /\ UNCHANGED <<command, confirm, extracted>>

\* FileManagerUI::deleteFile(): the confirmation and the call.
UiDeleteFileConfirm ==
    /\ pc = "DeleteFileConfirm"
    /\ \E inp \in ConfirmInputs, garbage \in IndeterminateChars :
        LET r == Extract(garbage, stdin, failed, inp)
        IN  /\ ReadConfirm(r)
            /\ IF r.blocked THEN UiGoto("DeleteFileConfirm", "None")
               ELSE IF IsYes(r.c)
               THEN UiCall("deleteFile", path, << >>, DeleteFile(fs, path))
               ELSE UiGoto("Command", "Canceled")
            /\ UNCHANGED <<command, path>>

\* FileManagerUI::createDirectory()
UiCreateDirectory ==
    /\ pc = "CreateDirectoryPath"
    /\ \E inp \in PathLineInputs :
        LET r == GetLine(<< >>, stdin, failed, inp)
        IN  /\ Cin(r.stdin, r.failed)
            /\ path' = r.str
            /\ UiCall("createDirectory", r.str, << >>, CreateDirectory(fs, r.str))
            /\ UNCHANGED <<command, confirm, extracted>>

\* FileManagerUI::deleteDirectory(): the path.
UiDeleteDirectoryPath ==
    /\ pc = "DeleteDirectoryPath"
    /\ \E inp \in PathLineInputs :
        LET r == GetLine(<< >>, stdin, failed, inp)
        IN  /\ Cin(r.stdin, r.failed)
            /\ path' = r.str
            /\ UiGoto("DeleteDirectoryConfirm", "None")
            /\ UNCHANGED <<command, confirm, extracted>>

\* FileManagerUI::deleteDirectory(): the confirmation and the call.
UiDeleteDirectoryConfirm ==
    /\ pc = "DeleteDirectoryConfirm"
    /\ \E inp \in ConfirmInputs, garbage \in IndeterminateChars :
        LET r == Extract(garbage, stdin, failed, inp)
        IN  /\ ReadConfirm(r)
            /\ IF r.blocked THEN UiGoto("DeleteDirectoryConfirm", "None")
               ELSE IF IsYes(r.c)
               THEN UiCall("deleteDirectory", path, << >>, DeleteDirectory(fs, path))
               ELSE UiGoto("Command", "Canceled")
            /\ UNCHANGED <<command, path>>

\* FileManagerUI::listDirectoryContents()
UiListDirectoryContents ==
    /\ pc = "ListPath"
    /\ \E inp \in PathLineInputs :
        LET r == GetLine(<< >>, stdin, failed, inp)
        IN  \E rev \in ListOrders(fs, r.str) :
            /\ Cin(r.stdin, r.failed)
            /\ path' = r.str
            /\ UiCall("list", r.str, << >>,
                      ListDirectoryContents(fs, r.str, << >>, rev))
            /\ UNCHANGED <<command, confirm, extracted>>

\* FileManagerUI::renameItem(): the current path.
UiRenameOldPath ==
    /\ pc = "RenameOldPath"
    /\ \E inp \in PathLineInputs :
        LET r == GetLine(<< >>, stdin, failed, inp)
        IN  /\ Cin(r.stdin, r.failed)
            /\ path' = r.str
            /\ UiGoto("RenameNewPath", "None")
            /\ UNCHANGED <<command, confirm, extracted>>

\* FileManagerUI::renameItem(): the new path and the call.
UiRenameNewPath ==
    /\ pc = "RenameNewPath"
    /\ \E inp \in PathLineInputs :
        LET r == GetLine(<< >>, stdin, failed, inp)
        IN  /\ Cin(r.stdin, r.failed)
            /\ UiCall("rename", path, r.str, Rename(fs, path, r.str))
            /\ UNCHANGED <<command, path, confirm, extracted>>

\* FileManagerUI::searchFiles(): the directory.
UiSearchPath ==
    /\ pc = "SearchPath"
    /\ \E inp \in PathLineInputs :
        LET r == GetLine(<< >>, stdin, failed, inp)
        IN  /\ Cin(r.stdin, r.failed)
            /\ path' = r.str
            /\ UiGoto("SearchPattern", "None")
            /\ UNCHANGED <<command, confirm, extracted>>

\* FileManagerUI::searchFiles(): the pattern and the call.
UiSearchPattern ==
    /\ pc = "SearchPattern"
    /\ \E inp \in PatternInputs, rev \in WalkOrders(fs, path) :
        LET r == GetLine(<< >>, stdin, failed, inp)
        IN  /\ Cin(r.stdin, r.failed)
            /\ UiCall("search", path, r.str,
                      SearchFiles(fs, path, r.str, << >>, rev))
            /\ UNCHANGED <<command, path, confirm, extracted>>

\* FileManagerUI::clearConsoleWithConfirmation()
UiClearConsole ==
    /\ pc = "ClearConfirm"
    /\ \E inp \in ConfirmInputs, garbage \in IndeterminateChars :
        LET r == Extract(garbage, stdin, failed, inp)
        IN  /\ ReadConfirm(r)
            /\ IF r.blocked THEN UiGoto("ClearConfirm", "None")
               ELSE IF IsYes(r.c) THEN UiGoto("Command", "ConsoleCleared")
               ELSE UiGoto("Command", "Canceled")
            /\ UNCHANGED <<command, path>>

-----------------------------------------------------------------------------
(* The facade driven directly, one call per step *)

FsList ==
    \E p \in vocab :
      \E rev \in ListOrders(fs, p) :
        LET r == ListDirectoryContents(fs, p, << >>, rev)
        IN  /\ Call("list", p, << >>, r)

FsCreateFile ==
    \E p \in vocab :
        LET r == CreateFile(fs, p)
        IN  /\ Call("createFile", p, << >>, r)

FsDeleteFile ==
    \E p \in vocab :
        LET r == DeleteFile(fs, p)
        IN  /\ Call("deleteFile", p, << >>, r)

FsCreateDirectory ==
    \E p \in vocab :
        LET r == CreateDirectory(fs, p)
        IN  /\ Call("createDirectory", p, << >>, r)

FsDeleteDirectory ==
    \E p \in vocab :
        LET r == DeleteDirectory(fs, p)
        IN  /\ Call("deleteDirectory", p, << >>, r)

FsRename ==
    \E old \in vocab, new \in vocab :
        LET r == Rename(fs, old, new)
        IN  /\ Call("rename", old, new, r)

FsSearch ==
    \E p \in vocab, s \in Patterns :
      \E rev \in WalkOrders(fs, p) :
        LET r == SearchFiles(fs, p, s, << >>, rev)
        IN  /\ Call("search", p, s, r)

Init ==
    /\ fs = EmptyFs
    /\ pre = EmptyFs
    /\ last = NoCall
    /\ trip = TripIdle
    /\ vocab \in Vocabularies
    /\ pc = "Command"
    /\ prev = "Start"
    /\ stdin = << >>
    /\ failed = FALSE
    /\ command = << >>
    /\ path = << >>
    /\ confirm = "?"
    /\ extracted = FALSE
    /\ out = "None"

Next ==
    \/ Start
    \/ ExitConfirm
    \/ UiCreateFile
    \/ UiDeleteFilePath
    \/ UiDeleteFileConfirm
    \/ UiCreateDirectory
    \/ UiDeleteDirectoryPath
    \/ UiDeleteDirectoryConfirm
    \/ UiListDirectoryContents
    \/ UiRenameOldPath
    \/ UiRenameNewPath
    \/ UiSearchPath
    \/ UiSearchPattern
    \/ UiClearConsole

\* The program: the console loop over the facade.
Spec == Init /\ [][Next]_vars

NextFS ==
    \/ FsList
    \/ FsCreateFile
    \/ FsDeleteFile
    \/ FsCreateDirectory
    \/ FsDeleteDirectory
    \/ FsRename
    \/ FsSearch

\* The facade under an arbitrary client.
SpecFS == Init /\ [][NextFS]_vars


-----------------------------------------------------------------------------
(* Properties of the model itself *)

\* The filesystem stays a tree (a rename moves at most MaxDepth - 1 levels
\* below a path of depth MaxDepth), and no read finds a partial line in cin.
ModelInv ==
    /\ FsWellFormed(fs)
    /\ \A p \in DOMAIN fs :
          /\ Depth(p) <= 2 * MaxDepth - 1
          /\ Filename(p) \in Range(Names)
          /\ Len(DirectoryIterator(fs, p, {})) <= 2
    /\ stdin # << >> => stdin[Len(stdin)] = NL
    /\ pc \notin {"Command", "Terminated"} => stdin = << >>

-----------------------------------------------------------------------------
(* Vocabulary of the claims *)

ConfirmPcs ==
    {"ExitConfirm", "DeleteFileConfirm", "DeleteDirectoryConfirm", "ClearConfirm"}

SessionEnded == pc \in {"Terminated", "Crashed"}

\* The last step completed a confirmation prompt with a character the user
\* typed.
Answered == prev \in ConfirmPcs /\ pc # prev /\ extracted

\* The entries at any depth below directory d.
Below(f, d) == {p \in DOMAIN f : IsUnder(p, d)}

\* The paths named by a client or present before or after the last step.
Known == vocab \cup DOMAIN fs \cup DOMAIN pre

\* name = x \o s \o y for some x and y.
Contains(name, s) ==
    \E i \in 0..(Len(name) - Len(s)) : \A k \in 1..Len(s) : name[i + k] = s[k]

\* The message the specification gives for each status code.
StatusMessage(code) ==
    LET table == (200 :> "OperationSuccessful") @@ (204 :> "NoFilesFound")
                 @@ (400 :> "InvalidPathOrExists") @@ (404 :> "NotFound")
                 @@ (500 :> "SystemError")
    IN  IF code \in DOMAIN table THEN table[code] ELSE "UnknownStatus"

\* Codes the facade never returns.
OtherCodes == {0, 201, 403, 503}

\* The menu: the number printed for the action that starts at each prompt.
MenuNumber ==
    [p \in {"CreateFilePath", "DeleteFilePath", "CreateDirectoryPath",
            "DeleteDirectoryPath", "ListPath", "RenameOldPath", "SearchPath",
            "ClearConfirm", "ExitConfirm"} |->
        CASE p = "CreateFilePath" -> <<"1">>
          [] p = "DeleteFilePath" -> <<"2">>
          [] p = "CreateDirectoryPath" -> <<"3">>
          [] p = "DeleteDirectoryPath" -> <<"4">>
          [] p = "ListPath" -> <<"5">>
          [] p = "RenameOldPath" -> <<"6">>
          [] p = "SearchPath" -> <<"7">>
          [] p = "ClearConfirm" -> <<"8">>
          [] p = "ExitConfirm" -> <<"9">>]

\* The whole line, leading blanks aside, is a decimal numeral of value n.
DenotesNumber(line, n) ==
    LET t == SubSeq(line, FirstNonSpace(line), Len(line))
    IN  /\ t # << >>
        /\ \A i \in 1..Len(t) : IsDigit(t[i])
        /\ DecimalValue(t) = n

-----------------------------------------------------------------------------
(* Claims *)

\* C1 (as claimed): every command line that is not a valid integer selector
\* ("a", the empty line) is answered with "unknown command" and the loop goes
\* back to the menu.  The code lets std::stoi throw instead.
C1_UnknownCommandReported ==
    (prev = "Command" /\ ~failed /\ ~Stoi(command).ok)
        => (pc = "Command" /\ out = "UnknownCommand")

\* C2 (as claimed): the session ends only after the exit command was entered
\* and confirmed with 'y' or 'Y'; no other input, facade result or end of
\* input ends it.
C2_EndsOnlyByConfirmedExit ==
    SessionEnded =>
        /\ pc = "Terminated"
        /\ prev = "ExitConfirm"
        /\ command = <<"9">>
        /\ extracted
        /\ confirm \in {"y", "Y"}

\* C3: each destructive command acts only from its confirmation prompt, and
\* for any response other than 'y' or 'Y' the controller calls no facade
\* operation, leaves the filesystem as it was, does not end the session and
\* is back at the menu.
C3_CancelHasNoEffect ==
    /\ last.op = "deleteFile" => prev = "DeleteFileConfirm"
    /\ last.op = "deleteDirectory" => prev = "DeleteDirectoryConfirm"
    /\ pc = "Terminated" => prev = "ExitConfirm"
    /\ out = "ConsoleCleared" => prev = "ClearConfirm"
    /\ (Answered /\ confirm \notin {"y", "Y"}) =>
          /\ last = NoCall
          /\ fs = pre
          /\ pc = "Command"
          /\ out \in {"Canceled", "None"}

\* C3 witness: a deletion of an existing file was asked for and declined.
C3_Witness ==
    /\ prev = "DeleteFileConfirm"
    /\ Answered
    /\ confirm = "N"
    /\ KindOf(fs, path) = "file"
    /\ pc = "Command"

\* C4: whatever status a facade call returns, the controller prints the one
\* message of that status and waits for the next command; codes outside the
\* five get the "unknown status" message.
C4_StatusReportedLoopContinues ==
    /\ \A code \in {200, 204, 400, 404, 500} \cup OtherCodes :
          HandleStatus(code) = StatusMessage(code)
    /\ last.op # "none" =>
          /\ out = StatusMessage(last.status)
          /\ pc = "Command"

\* C4 witness: an operation failed with 404 and the loop is at the menu again.
C4_Witness ==
    /\ last.op = "deleteDirectory"
    /\ last.status = 404
    /\ out = "NotFound"
    /\ pc = "Command"

\* C5 (as claimed): search(D, "") on any existing directory D returns Success
\* with every entry under D.
C5_EmptySubstringAlwaysSuccess ==
    (last.op = "search" /\ KindOf(pre, last.path) = "dir" /\ last.arg = << >>)
        => /\ last.status = 200
           /\ Range(last.results) = Below(pre, last.path)

\* C5 (amended): search(D, "") on an existing directory D returns every entry
\* under D, at every depth; the status is Success when D has an entry and
\* NoMatches when D is empty.
C5_EmptySubstringListsAll ==
    (last.op = "search" /\ KindOf(pre, last.path) = "dir" /\ last.arg = << >>)
        => /\ Range(last.results) = Below(pre, last.path)
           /\ last.status = IF Below(pre, last.path) = {} THEN 204 ELSE 200

\* C5 witness: a search for "" returned entries of two depths.
C5_Witness ==
    /\ last.op = "search"
    /\ last.arg = << >>
    /\ last.status = 200
    /\ \E e \in Range(last.results) : Parent(e) = last.path
    /\ \E e \in Range(last.results) : Parent(Parent(e)) = last.path

\* C6: search(D, s) on an existing directory D returns exactly the entries
\* at any depth below D whose last path component contains s, each once;
\* the status is NoMatches exactly when there are none, Success otherwise.
C6_SearchExactMatches ==
    (last.op = "search" /\ KindOf(pre, last.path) = "dir") =>
        LET want == {p \in Below(pre, last.path) : Contains(Filename(p), last.arg)}
        IN  /\ Range(last.results) = want
            /\ Len(last.results) = Cardinality(want)
            /\ last.status \in {200, 204}
            /\ last.status = 204 <=> want = {}

\* C6 witness: a search matched an entry in a subdirectory and left out
\* that subdirectory, whose name does not contain the substring.
C6_Witness ==
    /\ last.op = "search"
    /\ last.arg = <<"a">>
    /\ last.status = 200
    /\ \E e \in Range(last.results) :
          /\ Parent(Parent(e)) = last.path
          /\ Parent(e) \in Below(pre, last.path)
          /\ Parent(e) \notin Range(last.results)

\* C7: deleteFile(P), deleteDirectory(P) and rename(P, Q) return NotFound
\* for every path P that does not exist, whatever Q is.
C7_AbsentPathNotFound ==
    (last.op \in {"deleteFile", "deleteDirectory", "rename"}
        /\ KindOf(pre, last.path) = "none")
        => (last.status = 404 /\ fs = pre)

\* C7 witness: a rename of an absent path onto an existing, deeper one.
C7_Witness ==
    /\ last.op = "rename"
    /\ KindOf(pre, last.path) = "none"
    /\ KindOf(pre, last.arg) = "file"
    /\ Depth(last.arg) > Depth(last.path)
    /\ last.status = 404

\* C8: deleteFile(F) of an existing regular file returns Success and F is
\* gone; on a path that exists but is no regular file it returns
\* InvalidRequest and removes nothing.
C8_DeleteFile ==
    last.op = "deleteFile" =>
        /\ KindOf(pre, last.path) = "file" =>
              /\ last.status = 200
              /\ KindOf(fs, last.path) = "none"
              /\ \A p \in Known \ {last.path} : KindOf(fs, p) = KindOf(pre, p)
        /\ KindOf(pre, last.path) = "dir" =>
              (last.status = 400 /\ fs = pre)

\* C8 witness: a regular file in a subdirectory was deleted.
C8_Witness ==
    /\ last.op = "deleteFile"
    /\ KindOf(pre, last.path) = "file"
    /\ Parent(last.path) # EmptyPath
    /\ last.status = 200
    /\ KindOf(fs, last.path) = "none"

\* C9: createDirectory(D) on a path that already exists, directory or not,
\* returns InvalidRequest and changes nothing.
C9_CreateExistingDirectory ==
    (last.op = "createDirectory" /\ KindOf(pre, last.path) # "none")
        => (last.status = 400 /\ fs = pre)

\* C9 witness: createDirectory on an existing directory.
C9_Witness ==
    /\ last.op = "createDirectory"
    /\ KindOf(pre, last.path) = "dir"
    /\ last.status = 400

\* C10 (as claimed): after createFile(P), list(parent(P)) returns Success
\* and includes P; after a following deleteFile(P) the same list returns
\* Success without P and with every other child as before.  Stated for the
\* paths P that name their directory (parent(P) is not the empty path).
C10_RoundTripAlways ==
    Parent(trip.p) # EmptyPath =>
        /\ trip.stage >= 2 => (trip.listSt = 200 /\ trip.p \in trip.listed)
        /\ trip.stage = 4 =>
              /\ trip.list2St = 200
              /\ trip.p \notin trip.listed2
              /\ trip.listed2 = trip.listed \ {trip.p}

\* C10 (amended): for a path P that names its directory, the round trip
\* holds whenever createFile(P) returned Success; deleteFile(P) then returns
\* Success too.
C10_RoundTripAfterSuccess ==
    (trip.createSt = 200 /\ Parent(trip.p) # EmptyPath) =>
        /\ trip.stage >= 2 => (trip.listSt = 200 /\ trip.p \in trip.listed)
        /\ trip.stage >= 3 => trip.deleteSt = 200
        /\ trip.stage = 4 =>
              /\ trip.list2St = 200
              /\ trip.p \notin trip.listed2
              /\ trip.listed2 = trip.listed \ {trip.p}

\* C10 witness: a whole round trip in a directory with another child.
C10_Witness ==
    /\ trip.stage = 4
    /\ trip.createSt = 200
    /\ Parent(trip.p) # EmptyPath
    /\ trip.listed2 # {}
    /\ trip.listed = trip.listed2 \cup {trip.p}

\* C11 (as claimed): for every existing oldPath and every newPath, whenever
\* rename(oldPath, newPath) returns Success, newPath exists, oldPath does not,
\* and a list of the directories involved shows newPath and not oldPath.
C11_RenameAlwaysMoves ==
    (last.op = "rename" /\ KindOf(pre, last.path) # "none" /\ last.status = 200)
        => /\ KindOf(fs, last.arg) = KindOf(pre, last.path)
           /\ KindOf(fs, last.path) = "none"
           /\ \A rev \in SUBSET {Parent(last.arg), Parent(last.path)} :
                 LET ln == ListDirectoryContents(fs, Parent(last.arg), << >>, rev)
                     lo == ListDirectoryContents(fs, Parent(last.path), << >>, rev)
                 IN  /\ ln.status = 200
                     /\ last.arg \in Range(ln.results)
                     /\ last.path \notin Range(ln.results)
                     /\ lo.status = 200
                     /\ last.path \notin Range(lo.results)

\* C11 (amended): for every existing oldPath and every newPath naming another
\* entry than oldPath, whenever rename(oldPath, newPath) returns Success the
\* entry formerly at oldPath (with what lay below it) is at newPath and
\* oldPath no longer exists; for each of the two paths that is written with a
\* directory part D, a list of D returns Success and does not contain oldPath,
\* and the list of newPath's D contains newPath.
C11_RenameMoves ==
    (last.op = "rename" /\ KindOf(pre, last.path) # "none" /\ last.status = 200
        /\ last.arg # last.path)
        => /\ KindOf(fs, last.arg) = KindOf(pre, last.path)
           /\ KindOf(fs, last.path) = "none"
           /\ \A q \in DOMAIN pre :
                 IsUnder(q, last.path) =>
                     KindOf(fs, last.arg \o SubSeq(q, Len(last.path) + 1, Len(q)))
                         = pre[q]
           /\ \A q \in Known : IsUnder(q, last.path) => KindOf(fs, q) = "none"
           /\ Parent(last.arg) # EmptyPath =>
                 \A rev \in ListOrders(fs, Parent(last.arg)) :
                     LET ln == ListDirectoryContents(fs, Parent(last.arg), << >>, rev)
                     IN  /\ ln.status = 200
                         /\ last.arg \in Range(ln.results)
                         /\ last.path \notin Range(ln.results)
           /\ Parent(last.path) # EmptyPath =>
                 \A rev \in ListOrders(fs, Parent(last.path)) :
                     LET lo == ListDirectoryContents(fs, Parent(last.path), << >>, rev)
                     IN  /\ lo.status = 200
                         /\ last.path \notin Range(lo.results)

\* C11 witness: a directory with an entry in it was renamed from inside a
\* directory to a bare name.
C11_Witness ==
    /\ last.op = "rename"
    /\ last.status = 200
    /\ last.arg # last.path
    /\ Parent(last.path) # EmptyPath
    /\ Parent(last.arg) = EmptyPath
    /\ KindOf(pre, last.path) = "dir"
    /\ \E q \in DOMAIN pre : IsUnder(q, last.path)
    /\ KindOf(fs, last.arg) = "dir"
    /\ KindOf(fs, last.path) = "none"

\* C12: deleteDirectory(P) returns NotFound when P is absent and
\* InvalidRequest when P exists but is no directory, removing nothing in
\* either case; otherwise it returns Success, after which P and every entry
\* below it are gone and every entry outside that subtree is as it was.
C12_DeleteDirectory ==
    last.op = "deleteDirectory" =>
        /\ KindOf(pre, last.path) = "none" => (last.status = 404 /\ fs = pre)
        /\ KindOf(pre, last.path) = "file" => (last.status = 400 /\ fs = pre)
        /\ KindOf(pre, last.path) = "dir" =>
              /\ last.status = 200
              /\ \A p \in Known :
                    KindOf(fs, p) = IF p = last.path \/ IsUnder(p, last.path)
                                    THEN "none" ELSE KindOf(pre, p)

\* C12 witness: a directory with an entry in it was deleted, next to a
\* sibling that stays.
C12_Witness ==
    /\ last.op = "deleteDirectory"
    /\ last.status = 200
    /\ \E q \in DOMAIN pre :
          /\ Parent(q) = last.path
          /\ q \notin DOMAIN fs
    /\ \E o \in DOMAIN fs :
          /\ Parent(o) = Parent(last.path)
          /\ o # last.path

\* C13 (as claimed): once a confirmation prompt has taken the user's response
\* and the loop is about to read a command, nothing of the response line is
\* left in cin, so the next command read is the user's next input line;
\* this for every response line, "yes" and "no" included.  The code extracts
\* one character and ignores one more, whatever the length of the line.
C13_NoLeftoverAfterConfirmation ==
    (prev \in ConfirmPcs /\ pc = "Command" /\ extracted) => stdin = << >>

\* C14 (as claimed): a command line starts a menu action only when the whole
\* line is exactly that action's number, so a line with a numeric prefix and
\* other text ("2a") starts none; and every line that denotes 9 ("9", "09",
\* " 9") reaches the exit prompt.  The code parses a prefix with std::stoi
\* and tests for exit by comparing the line with "9".
C14_WholeLineSelectsAction ==
    prev = "Command" =>
        /\ pc \in DOMAIN MenuNumber => command = MenuNumber[pc]
        /\ DenotesNumber(command, 9) => pc = "ExitConfirm"

====
